---- MODULE Spec2Model ----
(***************************************************************************)
(* Model of the sampling / quantization pipeline of the audio visualizer.  *)
(*                                                                         *)
(* The crusher callback (ScriptProcessor onaudioprocess) exists in three   *)
(* versions in the repository: polyphase FIR (pages/Visualizer.tsx 82-353),*)
(* windowed sinc (pages/Visualizer.tsx 558-709) and sample-and-hold        *)
(* (unnamed/part_001 59-149).  All three share the phase-accumulator       *)
(* decimator and the quantizer; `variant` selects which one is modelled.   *)
(*                                                                         *)
(* Numbers that are real-valued in the program (sample values, the phase   *)
(* accumulator, the downsample ratio) are exact rationals <<num, den>> in  *)
(* lowest terms with den > 0; rounding of IEEE doubles is not modelled.     *)
(***************************************************************************)
EXTENDS Integers, Sequences, FiniteSets, TLC

VARIABLES
    variant,            \* which version of the crusher callback is live
    actualContextRate,  \* ctx.sampleRate, fixed at construction
    sampleRate,         \* target sample rate the processor was built with
    bitDepth,           \* bit depth the processor was built with
    phaseAccumulator,   \* closure state of the crusher (rational)
    sampleBuffer,       \* closure state: captured quantized samples
    lastSample,         \* closure state of the sample-and-hold version
    input,              \* e.inputBuffer of the callback in progress
    output,             \* e.outputBuffer, the part written so far
    i,                  \* loop index of the callback in progress
    ticks,              \* hardware ticks processed since construction
    captureTicks,       \* the ticks on which a sample was captured
    qStage,             \* quantizer study: "idle", "quantized", "requantized"
    qValue,             \* quantizer study: the value handed to quantize
    qIndex,             \* quantizer study: index of drawBinaryEncoding.quantize
    qOut,               \* quantizer study: result of drawQuantizedWaveform.quantize
    qPrev,              \* quantizer study: the result of the previous application
    writeLog,           \* indices of output written by the callback in progress
    ui,                 \* React state of the Visualizer component
    rendered,           \* the state values seen by the effects that ran last
    events,             \* number of user events so far
    live,               \* instance built by the last run of the pipeline effect, 0 if none
    built,              \* number of pipeline instances constructed so far
    graph,              \* per instance: its audio nodes and their connections
    audioContextRef,    \* audioContextRef.current (instance id, 0 for null)
    oscillatorRef,      \* oscillatorRef.current (instance id, 0 for null)
    gainNodeRef,        \* gainNodeRef.current (instance id, 0 for null)
    playbackTimerRef,   \* playbackTimerRef.current (timer id, 0 for null)
    timers,             \* timers armed and neither fired nor cleared
    armed,              \* number of timers armed so far
    fir,                \* firBuffer and bufferIndex of the two Kaiser FIR filters
    firOut,             \* writes of the last firFilter.onaudioprocess call
    heard,              \* callbacks run after their instance's teardown, and the instances
                        \* among them whose output reached the destination
    upload,             \* handleFileUpload: "none", "decoding", "failed", "loaded"
    tempCtx,            \* temporary decoding contexts: opened and closed counts
    deviceRate,         \* sample rate of the audio device (AudioContext default rate)
    eventBudget,        \* number of user events a run follows
    gStage,             \* waveform study: "idle" or "generated"
    gTime,              \* waveform study: t
    gFrequency,         \* waveform study: frequency
    gOut,               \* waveform study: result of generateWaveform
    stream,             \* stream study: every input sample the processor has consumed
    produced,           \* stream study: every output sample the processor has written
    phaseCoeffs,        \* tap study: the windowed-sinc taps of one branch, before normalization
    filterCoeffs,       \* tap study: the branch as stored in filterCoeffs (<<>> until computed)
    interpolatedSample  \* tap study: constant history value and the branch's output for it

vars == <<variant, actualContextRate, sampleRate, bitDepth, phaseAccumulator,
          sampleBuffer, lastSample, input, output, i, ticks, captureTicks,
          qStage, qValue, qIndex, qOut, qPrev, writeLog,
          ui, rendered, events, live, built, graph, audioContextRef,
          oscillatorRef, gainNodeRef, playbackTimerRef, timers, armed, fir,
          firOut, heard, upload, tempCtx, deviceRate, eventBudget, gStage, gTime, gFrequency, gOut,
          stream, produced, phaseCoeffs, filterCoeffs, interpolatedSample>>

crusherVars == <<variant, actualContextRate, sampleRate, phaseAccumulator,
                 sampleBuffer, lastSample, input, output, i, ticks, captureTicks>>

quantVars == <<qStage, qValue, qIndex, qOut, qPrev>>

componentVars == <<ui, rendered, events, live, built, graph, audioContextRef,
                   oscillatorRef, gainNodeRef, playbackTimerRef, timers, armed,
                   heard, upload, tempCtx, deviceRate, eventBudget>>

firVars == <<fir, firOut>>

waveVars == <<gStage, gTime, gFrequency, gOut>>

streamVars == <<stream, produced>>

tapVars == <<phaseCoeffs, filterCoeffs, interpolatedSample>>

----------------------------------------------------------------------------
(* Bounds of the model *)

MaxTicks == 12        \* hardware ticks followed per processor
MaxBlock == 2         \* longest input block handed to one callback
MaxCrusherBits == 2   \* bit depths 1..MaxCrusherBits in the crusher runs
MaxBitDepth == 4      \* bit depths 1..MaxBitDepth in the quantizer runs
OverRange == 3        \* grid steps beyond [-1,1] tried as quantizer inputs

----------------------------------------------------------------------------
(* Exact rational arithmetic standing in for JavaScript numbers *)

Abs(n) == IF n < 0 THEN -n ELSE n

RECURSIVE GCD(_, _)
GCD(a, b) == IF b = 0 THEN a ELSE GCD(b, a % b)

Rat(n, d) ==
    LET s == IF d < 0 THEN -1 ELSE 1
        g == GCD(Abs(n), Abs(d))
    IN  <<(s * n) \div g, (s * d) \div g>>

Zero == <<0, 1>>
One == <<1, 1>>
Two == <<2, 1>>
FromInt(n) == <<n, 1>>

RAdd(a, b) == Rat(a[1] * b[2] + b[1] * a[2], a[2] * b[2])
RSub(a, b) == Rat(a[1] * b[2] - b[1] * a[2], a[2] * b[2])
RMul(a, b) == Rat(a[1] * b[1], a[2] * b[2])
RDiv(a, b) == Rat(a[1] * b[2], a[2] * b[1])
RLt(a, b) == a[1] * b[2] < b[1] * a[2]
RLeq(a, b) == a[1] * b[2] <= b[1] * a[2]
RGeq(a, b) == RLeq(b, a)
RAbs(a) == <<Abs(a[1]), a[2]>>

\* Math.floor, Math.ceil, Math.round, Math.max, Math.min
Floor(a) == a[1] \div a[2]
Ceil(a) == -((-a[1]) \div a[2])
Round(a) == (2 * a[1] + a[2]) \div (2 * a[2])
Max(a, b) == IF a >= b THEN a ELSE b
Min(a, b) == IF a <= b THEN a ELSE b

RECURSIVE Pow2(_)
Pow2(n) == IF n = 0 THEN 1 ELSE 2 * Pow2(n - 1)

----------------------------------------------------------------------------
(* Quantizer: the four lines repeated in every callback and canvas *)

\* Math.pow(2, bitDepth)
quantizationLevels(bits) == Pow2(bits)

\* Variations of quantizeToIndex used to test the claims' sensitivity
quantizeToIndexLooseClamp(value, levels) ==
    LET normalized == RDiv(RAdd(value, One), Two)
        quantized == Floor(RMul(normalized, FromInt(levels)))
    IN  Max(0, Min(levels, quantized))

quantizeToIndexRound(value, levels) ==
    LET normalized == RDiv(RAdd(value, One), Two)
        quantized == Round(RMul(normalized, FromInt(levels)))
    IN  Max(0, Min(levels - 1, quantized))

quantizeToIndexCeil(value, levels) ==
    LET normalized == RDiv(RAdd(value, One), Two)
        quantized == Ceil(RMul(normalized, FromInt(levels)))
    IN  Max(0, Min(levels - 1, quantized))

quantizeToIndexFewerBins(value, levels) ==
    LET normalized == RDiv(RAdd(value, One), Two)
        quantized == Floor(RMul(normalized, FromInt(levels - 1)))
    IN  Max(0, Min(levels - 1, quantized))

\* normalized = (value + 1) / 2; quantized = floor(normalized * levels);
\* clamped = max(0, min(levels - 1, quantized))
quantizeToIndex(value, levels) ==
    LET normalized == RDiv(RAdd(value, One), Two)
        quantized == Floor(RMul(normalized, FromInt(levels)))
    IN  Max(0, Min(levels - 1, quantized))

\* Variation of dequantize: divides by levels instead of levels - 1
dequantizeByLevels(clamped, levels) ==
    RSub(RMul(RDiv(FromInt(clamped), FromInt(levels)), Two), One)

\* (clamped / (levels - 1)) * 2 - 1
dequantize(clamped, levels) ==
    RSub(RMul(RDiv(FromInt(clamped), FromInt(levels - 1)), Two), One)

quantize(value, levels) == dequantize(quantizeToIndex(value, levels), levels)

----------------------------------------------------------------------------
(* Crusher: construction-time constants of the closure *)

Variants == {"polyphase", "sinc", "hold"}

\* useState(48000): the hardware rate reported by the host
hardwareMaxRate == 48000

\* Target rates tried: four below the hardware rate (ratios 6, 4, 12/5 and
\* 3/2), the hardware rate itself and one above it
SampleRates == {8000, 12000, 20000, 32000, 48000, 52000}

\* ctx.sampleRate.  The polyphase and sinc versions open the context at the
\* hardware rate.  The sample-and-hold version builds no processor when
\* sampleRate > hardwareMaxRate and otherwise asks for a context at
\* sampleRate itself, which the host either honours or replaces by its own
\* hardware rate.
ContextRates(v, rate) ==
    IF v = "hold"
    THEN IF rate > hardwareMaxRate THEN {} ELSE {rate, hardwareMaxRate}
    ELSE {hardwareMaxRate}

\* Scaled-down kernel supports: the source has filterLength = 64 and
\* sincRadius = 32; the model keeps the same code with shorter histories.
filterLength == 3
sincRadius == 1
numPhases == 256

\* Variation: the ratio taken the wrong way round
downsampleRatioInverted == Rat(sampleRate, actualContextRate)

\* const downsampleRatio = actualContextRate / sampleRate
downsampleRatio == Rat(actualContextRate, sampleRate)

\* Variation: equal rates treated as decimation
DecimatingOrEqual == sampleRate <= actualContextRate

\* if (sampleRate < actualContextRate)
Decimating == sampleRate < actualContextRate

\* Variation: strict comparison
CaptureDueStrict(phase) == RLt(downsampleRatio, phase)

\* if (phaseAccumulator >= downsampleRatio)
CaptureDue(phase) == RGeq(phase, downsampleRatio)

\* phaseAccumulator += 1.0
Advance(phase) == RAdd(phase, One)

\* Variation: the phase is reset instead of wrapped
WrapToZero(advanced) == Zero

\* phaseAccumulator -= downsampleRatio
Wrap(advanced) == RSub(advanced, downsampleRatio)

\* sampleBuffer.length limit of the live version
HistoryLimit ==
    IF variant = "polyphase" THEN filterLength ELSE sincRadius * 2 + 1

\* Variation: the newest sample is dropped instead of the oldest
PushSampleDropNewest(buf, q) ==
    LET pushed == Append(buf, q)
    IN  IF Len(pushed) > HistoryLimit THEN SubSeq(pushed, 1, HistoryLimit) ELSE pushed

\* sampleBuffer.push(q); if (sampleBuffer.length > limit) sampleBuffer.shift()
PushSample(buf, q) ==
    LET pushed == Append(buf, q)
    IN  IF Len(pushed) > HistoryLimit THEN Tail(pushed) ELSE pushed

\* One element of the output block.  An interpolated sample is kept as the
\* branch (polyphase) or fraction (sinc) and the history window it is the
\* weighted sum of; the weights are fixed tables of the processor.
Plain(v) == [kind |-> "plain", value |-> v, branch |-> 0, frac |-> Zero, taps |-> <<>>]
Interpolated(b, f, w) == [kind |-> "interp", value |-> Zero, branch |-> b, frac |-> f, taps |-> w]

\* Variation: the sample-and-hold output is read before this tick's capture
ReconstructBeforeCapture(phase, buf, last) ==
    IF variant = "hold" THEN Plain(lastSample)
    ELSE IF Len(buf) >= HistoryLimit
         THEN LET fracPos == RDiv(phase, downsampleRatio)
                  startIdx == Len(buf) - HistoryLimit
                  window == SubSeq(buf, startIdx + 1, startIdx + HistoryLimit)
              IN  IF variant = "polyphase"
                  THEN Interpolated(Floor(RMul(fracPos, FromInt(numPhases))) % numPhases,
                                    Zero, window)
                  ELSE Interpolated(0, fracPos, window)
         ELSE IF Len(buf) > 0 THEN Plain(buf[Len(buf)]) ELSE Plain(Zero)
\* Variation: interpolation starts one capture late
ReconstructLate(phase, buf, last) ==
    IF variant = "hold" THEN Plain(last)
    ELSE IF Len(buf) > HistoryLimit
         THEN LET fracPos == RDiv(phase, downsampleRatio)
                  startIdx == Len(buf) - HistoryLimit
                  window == SubSeq(buf, startIdx + 1, startIdx + HistoryLimit)
              IN  IF variant = "polyphase"
                  THEN Interpolated(Floor(RMul(fracPos, FromInt(numPhases))) % numPhases,
                                    Zero, window)
                  ELSE Interpolated(0, fracPos, window)
         ELSE IF Len(buf) > 0 THEN Plain(buf[Len(buf)]) ELSE Plain(Zero)

\* Variation: tap 0 is paired with the newest history sample
ReconstructNewestFirst(phase, buf, last) ==
    IF variant = "hold" THEN Plain(last)
    ELSE IF Len(buf) >= HistoryLimit
         THEN LET fracPos == RDiv(phase, downsampleRatio)
                  window == [tap \in 1..HistoryLimit |-> buf[Len(buf) - tap + 1]]
              IN  IF variant = "polyphase"
                  THEN Interpolated(Floor(RMul(fracPos, FromInt(numPhases))) % numPhases,
                                    Zero, window)
                  ELSE Interpolated(0, fracPos, window)
         ELSE IF Len(buf) > 0 THEN Plain(buf[Len(buf)]) ELSE Plain(Zero)


\* The reconstruction step of the decimating branch, after the capture
Reconstruct(phase, buf, last) ==
    IF variant = "hold" THEN Plain(last)
    ELSE IF Len(buf) >= HistoryLimit
         THEN LET fracPos == RDiv(phase, downsampleRatio)
                  startIdx == Len(buf) - HistoryLimit
                  window == SubSeq(buf, startIdx + 1, startIdx + HistoryLimit)
              IN  IF variant = "polyphase"
                  THEN Interpolated(Floor(RMul(fracPos, FromInt(numPhases))) % numPhases,
                                    Zero, window)
                  ELSE Interpolated(0, fracPos, window)
         ELSE IF Len(buf) > 0 THEN Plain(buf[Len(buf)]) ELSE Plain(Zero)

CrusherInputs == {<<-1, 1>>, <<0, 1>>, <<1, 1>>}

Blocks == UNION {[1..n -> CrusherInputs] : n \in 1..MaxBlock}

Idle == i = Len(input)

\* Variation: the write lands one slot late
WriteIndexNext(k) == k + 1

\* output[i] = ...: the slot of the output block written by iteration i
WriteIndex(k) == k

----------------------------------------------------------------------------
(* Crusher: the callback *)
\* Variation: the accumulator is a local of the callback, fresh in every block
BeginBlockFreshPhase(blk) ==
    /\ Idle
    /\ ticks + Len(blk) <= MaxTicks
    /\ input' = blk
    /\ output' = <<>>
    /\ writeLog' = <<>>
    /\ i' = 0
    /\ phaseAccumulator' = Zero
    /\ UNCHANGED <<variant, actualContextRate, sampleRate, bitDepth,
                   sampleBuffer, lastSample, ticks,
                   captureTicks, quantVars, componentVars, firVars, waveVars, tapVars>>


\* The host hands a new block to crusher.onaudioprocess
BeginBlock(blk) ==
    /\ Idle
    /\ ticks + Len(blk) <= MaxTicks
    /\ input' = blk
    /\ output' = <<>>
    /\ writeLog' = <<>>
    /\ i' = 0
    /\ UNCHANGED <<variant, actualContextRate, sampleRate, bitDepth,
                   phaseAccumulator, sampleBuffer, lastSample, ticks,
                   captureTicks, quantVars, componentVars, firVars, waveVars, tapVars>>

\* One iteration of  for (let i = 0; i < input.length; i++)
ProcessSample ==
    /\ i < Len(input)
    /\ LET x == input[i + 1]
           levels == quantizationLevels(bitDepth)
           advanced == Advance(phaseAccumulator)
           due == CaptureDue(advanced)
           q == quantize(x, levels)
       IN  IF Decimating
           THEN /\ phaseAccumulator' =
                      IF due THEN Wrap(advanced) ELSE advanced
                /\ sampleBuffer' =
                      IF due /\ variant # "hold"
                      THEN PushSample(sampleBuffer, q) ELSE sampleBuffer
                /\ lastSample' =
                      IF due /\ variant = "hold" THEN q ELSE lastSample
                /\ captureTicks' =
                      IF due THEN captureTicks \cup {ticks + 1} ELSE captureTicks
                /\ output' = Append(output,
                                    Reconstruct(phaseAccumulator', sampleBuffer', lastSample'))
           ELSE /\ output' = Append(output, Plain(q))
                /\ UNCHANGED <<phaseAccumulator, sampleBuffer, lastSample, captureTicks>>
    /\ writeLog' = Append(writeLog, WriteIndex(i))
    /\ i' = i + 1
    /\ ticks' = ticks + 1
    /\ UNCHANGED <<variant, actualContextRate, sampleRate, bitDepth, input,
                   quantVars, componentVars, firVars, waveVars, tapVars>>

\* The parts of the state that a run of one callback or helper leaves out
ComponentAbsent ==
    /\ ui = <<>>
    /\ rendered = <<>>
    /\ events = 0
    /\ live = 0
    /\ built = 0
    /\ graph = <<>>
    /\ audioContextRef = 0
    /\ oscillatorRef = 0
    /\ gainNodeRef = 0
    /\ playbackTimerRef = 0
    /\ timers = {}
    /\ armed = 0
    /\ fir = <<>>
    /\ firOut = <<>>
    /\ heard = [calls |-> 0, instances |-> {}]
    /\ upload = "none"
    /\ tempCtx = <<0, 0>>
    /\ deviceRate = hardwareMaxRate
    /\ eventBudget = 0

StreamIdle ==
    /\ stream = <<>>
    /\ produced = <<>>

TapsIdle ==
    /\ phaseCoeffs = <<>>
    /\ filterCoeffs = <<>>
    /\ interpolatedSample = <<>>

WaveIdle ==
    /\ gStage = "idle"
    /\ gTime = Zero
    /\ gFrequency = Zero
    /\ gOut = Zero

Init ==
    /\ variant \in Variants
    /\ sampleRate \in SampleRates
    /\ actualContextRate \in ContextRates(variant, sampleRate)
    /\ bitDepth \in 1..MaxCrusherBits
    /\ phaseAccumulator = Zero
    /\ sampleBuffer = <<>>
    /\ lastSample = Zero
    /\ input = <<>>
    /\ output = <<>>
    /\ i = 0
    /\ ticks = 0
    /\ captureTicks = {}
    /\ qStage = "idle"
    /\ qValue = Zero
    /\ qIndex = 0
    /\ qOut = Zero
    /\ qPrev = Zero
    /\ writeLog = <<>>
    /\ ComponentAbsent
    /\ WaveIdle
    /\ StreamIdle
    /\ TapsIdle

\* A block callback of a processor whose streams are not recorded
CrusherBeginBlock ==
    \E blk \in Blocks :
        /\ BeginBlock(blk)
        /\ UNCHANGED streamVars

CrusherProcessSample ==
    /\ ProcessSample
    /\ UNCHANGED streamVars

Next ==
    \/ CrusherBeginBlock
    \/ CrusherProcessSample

Spec == Init /\ [][Next]_vars

----------------------------------------------------------------------------
(* Quantizer study: the canvas helpers applied to a grid of values *)

\* Grid denominator: a multiple of 10 and of levels / 2 for every bit depth
\* tried, so that 0.3, -0.9 and every bin edge 2k/levels - 1 are on the grid
ValueDen == 5 * Pow2(MaxBitDepth - 1)

QInputs == {Rat(n, ValueDen) : n \in -(ValueDen + OverRange)..(ValueDen + OverRange)}

\* drawQuantizedWaveform.quantize and drawBinaryEncoding.quantize applied
\* to the same value
DrawQuantized ==
    /\ qStage = "idle"
    /\ qIndex' = quantizeToIndex(qValue, quantizationLevels(bitDepth))
    /\ qOut' = quantize(qValue, quantizationLevels(bitDepth))
    /\ qStage' = "quantized"
    /\ UNCHANGED <<qValue, qPrev, bitDepth, crusherVars, writeLog,
                   componentVars, firVars, waveVars, streamVars, tapVars>>

\* The quantized value is quantized again at the same bit depth
Requantize ==
    /\ qStage = "quantized"
    /\ qValue' = qOut
    /\ qPrev' = qOut
    /\ qIndex' = quantizeToIndex(qOut, quantizationLevels(bitDepth))
    /\ qOut' = quantize(qOut, quantizationLevels(bitDepth))
    /\ qStage' = "requantized"
    /\ UNCHANGED <<bitDepth, crusherVars, writeLog, componentVars, firVars, waveVars, streamVars, tapVars>>

InitQuantizer ==
    /\ variant = "polyphase"
    /\ sampleRate = 8000
    /\ actualContextRate = hardwareMaxRate
    /\ bitDepth \in 1..MaxBitDepth
    /\ phaseAccumulator = Zero
    /\ sampleBuffer = <<>>
    /\ lastSample = Zero
    /\ input = <<>>
    /\ output = <<>>
    /\ i = 0
    /\ ticks = 0
    /\ captureTicks = {}
    /\ qStage = "idle"
    /\ qValue \in QInputs
    /\ qIndex = 0
    /\ qOut = Zero
    /\ qPrev = Zero
    /\ writeLog = <<>>
    /\ ComponentAbsent
    /\ WaveIdle
    /\ StreamIdle
    /\ TapsIdle

NextQuantizer ==
    \/ DrawQuantized
    \/ Requantize

SpecQuantizer == InitQuantizer /\ [][NextQuantizer]_vars

----------------------------------------------------------------------------
(* Vocabulary of the claims, stated independently of the model's operators *)

Levels == 2 ^ bitDepth
LevelValue(k) == Rat(2 * k - (Levels - 1), Levels - 1)
Distance(a, b) == RAbs(RSub(a, b))
InUnitRange(v) == RLeq(<<-1, 1>>, v) /\ RLeq(v, One)
DecimatingMode == sampleRate < actualContextRate
BypassMode == sampleRate >= actualContextRate
IntegerRatio == actualContextRate % sampleRate = 0
Ratio == Rat(actualContextRate, sampleRate)

----------------------------------------------------------------------------
(* C1..C10 *)

\* C1: in decimating mode with an integer downsample ratio R, a capture
\* happens on tick n if and only if n is a positive multiple of R.
C1_CaptureEveryR ==
    (DecimatingMode /\ IntegerRatio) =>
        captureTicks = {n \in 1..ticks : n % (actualContextRate \div sampleRate) = 0}

C1_Witness ==
    /\ actualContextRate = 48000 /\ sampleRate = 8000
    /\ ticks = 12
    /\ captureTicks = {6, 12}

\* C2: in decimating mode 0 <= phaseAccumulator < downsampleRatio in every
\* state, so fracPos = phaseAccumulator / downsampleRatio is in [0,1), for
\* integer and non-integer ratios alike.
C2_PhaseInRange ==
    DecimatingMode =>
        /\ RLeq(Zero, phaseAccumulator) /\ RLt(phaseAccumulator, Ratio)
        /\ RLeq(Zero, RDiv(phaseAccumulator, Ratio))
        /\ RLt(RDiv(phaseAccumulator, Ratio), One)

C2_Witness ==
    /\ DecimatingMode /\ ~IntegerRatio
    /\ ticks > 0
    /\ phaseAccumulator[2] # 1
    /\ RLt(One, phaseAccumulator)

\* C3: a decimating tick adds 1 to the phase; when the result reaches the
\* ratio it subtracts the ratio once and appends exactly the quantized
\* sample of that tick to the history; otherwise the history is unchanged.
C3_TickEffect ==
    [][(i' = i + 1 /\ DecimatingMode) =>
        LET advanced == RAdd(phaseAccumulator, One)
            q == LevelValue(quantizeToIndex(input[i + 1], Levels))
            n == Len(sampleBuffer')
        IN  IF RGeq(advanced, Ratio)
            THEN /\ phaseAccumulator' = RSub(advanced, Ratio)
                 /\ variant = "hold" => lastSample' = q /\ sampleBuffer' = sampleBuffer
                 /\ variant # "hold" =>
                       /\ lastSample' = lastSample
                       /\ n = Min(Len(sampleBuffer) + 1, HistoryLimit)
                       /\ sampleBuffer'[n] = q
                       /\ \A j \in 1..(n - 1) :
                             sampleBuffer'[j] = sampleBuffer[Len(sampleBuffer) - (n - 1) + j]
            ELSE /\ phaseAccumulator' = advanced
                 /\ sampleBuffer' = sampleBuffer
                 /\ lastSample' = lastSample]_vars

C3_Witness ==
    /\ DecimatingMode /\ ~IntegerRatio /\ variant = "polyphase"
    /\ ticks \in captureTicks
    /\ i > 0
    /\ Len(sampleBuffer) = HistoryLimit
    /\ sampleBuffer[Len(sampleBuffer)] = LevelValue(quantizeToIndex(input[i], Levels))
    /\ phaseAccumulator # Zero

\* C4: for every value, inside or outside [-1,1], the quantization index is
\* an integer in [0, levels-1]; +1 gives levels-1 and -1 gives 0.
C4_IndexInRange ==
    qStage # "idle" =>
        /\ qIndex \in 0..(Levels - 1)
        /\ qValue = One => qIndex = Levels - 1
        /\ qValue = <<-1, 1>> => qIndex = 0

C4_Witness ==
    /\ qStage = "quantized"
    /\ RLt(One, qValue)
    /\ qIndex = Levels - 1
    /\ bitDepth > 1

\* C5: for a value in [-1,1] the quantizer output is in [-1,1] and is one of
\* exactly `levels` values spaced by 2/(levels-1), each of which is produced
\* by some input in [-1,1].
C5_OutputLevels ==
    (qStage = "quantized" /\ InUnitRange(qValue)) =>
        /\ InUnitRange(qOut)
        /\ \E k \in 0..(Levels - 1) :
              qOut = RAdd(<<-1, 1>>, RMul(FromInt(k), Rat(2, Levels - 1)))
        /\ Cardinality({quantize(v, Levels) : v \in {w \in QInputs : InUnitRange(w)}}) = Levels
        /\ \A k \in 0..(Levels - 1) :
              \E v \in QInputs : InUnitRange(v) /\ quantize(v, Levels) = LevelValue(k)

C5_Witness ==
    /\ qStage = "quantized" /\ InUnitRange(qValue)
    /\ bitDepth = 3
    /\ qOut = Rat(3, 7)

Error == Distance(qOut, qValue)

\* C7 as stated: the output differs from the input by at most 1/(levels-1).
C7_ErrorWithinHalfStep ==
    (qStage = "quantized" /\ InUnitRange(qValue)) =>
        RLeq(Error, Rat(1, Levels - 1))

\* C7 amended: for a value in [-1,1] the output differs from the input by
\* at most 2/levels.
C7_ErrorWithinBin ==
    (qStage = "quantized" /\ InUnitRange(qValue)) =>
        RLeq(Error, Rat(2, Levels))

C7_Witness ==
    /\ qStage = "quantized" /\ InUnitRange(qValue)
    /\ bitDepth = 2
    /\ qValue = Rat(1, 2)
    /\ Error = Rat(1, 2)

\* C8 as stated: no representable level is strictly closer to the value
\* than the level the quantizer returns.
C8_NearestLevel ==
    (qStage = "quantized" /\ InUnitRange(qValue)) =>
        \A k \in 0..(Levels - 1) :
            ~RLt(Distance(LevelValue(k), qValue), Error)

\* C8 amended: the returned level is less than one level spacing away from
\* the value, so any level strictly closer to the value is a neighbour of
\* the returned one; with two levels the returned level is a nearest one.
C8_NearestOrNeighbour ==
    (qStage = "quantized" /\ InUnitRange(qValue)) =>
        /\ RLt(Error, Rat(2, Levels - 1)) \/ Levels = 2
        /\ \A k \in 0..(Levels - 1) :
              RLt(Distance(LevelValue(k), qValue), Error) =>
                  (Levels > 2 /\ Abs(k - qIndex) = 1)

C8_Witness ==
    /\ qStage = "quantized" /\ InUnitRange(qValue)
    /\ bitDepth = 4
    /\ \E k \in 0..(Levels - 1) :
          /\ RLt(Distance(LevelValue(k), qValue), Error)
          /\ k = qIndex - 1

\* C9: with bitDepth = 1 the divisor levels - 1 is not zero and the output
\* is -1 or +1: values in [0,1] get index 1 and +1, values in [-1,0) get
\* index 0 and -1.
C9_OneBit ==
    (bitDepth = 1 /\ qStage = "quantized") =>
        /\ Levels - 1 # 0
        /\ qOut[2] # 0
        /\ qOut \in {<<-1, 1>>, One}
        /\ (RLeq(Zero, qValue) /\ RLeq(qValue, One)) => (qIndex = 1 /\ qOut = One)
        /\ (RLeq(<<-1, 1>>, qValue) /\ RLt(qValue, Zero)) => (qIndex = 0 /\ qOut = <<-1, 1>>)

C9_Witness ==
    /\ bitDepth = 1 /\ qStage = "quantized"
    /\ qValue = Rat(3, 10)
    /\ qIndex = 1
    /\ qOut = One

\* C10: in bypass mode every output sample is the quantized input sample of
\* the same index, and the phase accumulator and the sample history stay as
\* constructed.
C10_Bypass ==
    BypassMode =>
        /\ phaseAccumulator = Zero
        /\ sampleBuffer = <<>>
        /\ lastSample = Zero
        /\ captureTicks = {}
        /\ Len(output) = i
        /\ \A j \in 1..Len(output) :
              /\ output[j].kind = "plain"
              /\ output[j].value = LevelValue(quantizeToIndex(input[j], Levels))

C10_Witness ==
    /\ BypassMode
    /\ ticks > 2
    /\ Len(output) = 2
    /\ output[1].value # output[2].value

----------------------------------------------------------------------------
(* The waveform generator of shared/schema.ts, sawtooth branch. The other
   branches go through Math.sin and are not modelled. *)

TimeDen == 4          \* t is a multiple of 1/TimeDen
TimeSpan == 10        \* t ranges over -TimeSpan/TimeDen .. TimeSpan/TimeDen

\* Math.trunc, as applied by the remainder operator
Trunc(a) == IF a[1] < 0 THEN -((-a[1]) \div a[2]) ELSE a[1] \div a[2]

\* a % b of JavaScript: the remainder of the truncated division, which
\* carries the sign of the dividend
JsRemainder(a, b) == RSub(a, RMul(b, FromInt(Trunc(RDiv(a, b)))))

\* case 'sawtooth': return 2 * ((frequency * t) % 1) - 1
generateWaveformSawtooth(t, frequency) ==
    RSub(RMul(Two, JsRemainder(RMul(frequency, t), One)), One)

WaveTimes == {Rat(n, TimeDen) : n \in (-TimeSpan)..TimeSpan}

WaveFrequencies == {<<1, 1>>, <<3, 1>>, <<5, 2>>, <<20, 1>>, <<440, 1>>, <<20000, 1>>}

GenerateSawtooth ==
    /\ \E t \in WaveTimes, f \in WaveFrequencies :
          /\ gTime' = t
          /\ gFrequency' = f
          /\ gOut' = generateWaveformSawtooth(t, f)
    /\ gStage' = "generated"
    /\ UNCHANGED <<bitDepth, crusherVars, quantVars, writeLog, componentVars, firVars,
                   streamVars, tapVars>>

InitWaveform ==
    /\ variant = "polyphase"
    /\ actualContextRate = hardwareMaxRate
    /\ sampleRate = hardwareMaxRate
    /\ bitDepth = 1
    /\ phaseAccumulator = Zero
    /\ sampleBuffer = <<>>
    /\ lastSample = Zero
    /\ input = <<>>
    /\ output = <<>>
    /\ i = 0
    /\ ticks = 0
    /\ captureTicks = {}
    /\ qStage = "idle"
    /\ qValue = Zero
    /\ qIndex = 0
    /\ qOut = Zero
    /\ qPrev = Zero
    /\ writeLog = <<>>
    /\ ComponentAbsent
    /\ WaveIdle
    /\ StreamIdle
    /\ TapsIdle

NextWaveform == GenerateSawtooth

SpecWaveform == InitWaveform /\ [][NextWaveform]_vars

----------------------------------------------------------------------------
(* The Visualizer component: React state, refs, effects and the audio graph
   each run of the pipeline effect builds. A render's effects are flushed in
   one step: the cleanups of the effects whose dependencies changed, in
   declaration order, then their bodies, in declaration order. Callbacks,
   event handlers and the flush all run on the one JavaScript thread, so none
   starts while a block callback is part-way through its loop. *)

MaxEvents == 1        \* user events (settings, play/pause, clear) followed
MaxUploads == 1       \* file uploads followed
LiveTicks == 2        \* hardware ticks followed per pipeline instance
MaxFirOrder == 2      \* the FIR order is cut down to this many taps
MaxStaleCalls == 1    \* callbacks of a torn-down instance followed

\* Default context rates: a 16 kHz device (the initial 8 kHz target then
\* captures every second tick) and a 48 kHz one
DeviceRates == {16000, 48000}

\* Values the setters are called with; 100000 Hz lies outside the bounds of
\* audioSettingsSchema
UiSampleRates == {8000, 48000, 100000}
UiBitDepths == {2, 8}
UiFrequencies == {440, 880}
UiWaveformTypes == {"sine", "square"}
UiZoomLevels == {100, 200}
AudioFiles == {1}

LiveInputs == {<<-1, 1>>, <<1, 1>>}
LiveBlocks == UNION {[1..n -> LiveInputs] : n \in 1..MaxBlock}
FirBlocks == {[j \in 1..n |-> One] : n \in 1..MaxBlock}

\* audioSettingsSchema of shared/schema.ts; no code of the component calls it
audioSettingsSchema(settings) ==
    /\ 10 * settings.sampleRate >= 1
    /\ settings.sampleRate <= 88200
    /\ settings.bitDepth \in 1..32
    /\ settings.frequency >= 20
    /\ settings.frequency <= 20000

\* The useState initial values
InitialState ==
    [hardwareMaxRate |-> hardwareMaxRate, sampleRate |-> 8000, bitDepth |-> 8,
     isPlaying |-> FALSE, frequency |-> 440, waveformType |-> "sine",
     zoomLevel |-> 100, audioBuffer |-> 0]

\* Variation: frequency is among the pipeline effect's dependencies in every
\* version
PipelineDepsWithFrequency ==
    {"isPlaying", "sampleRate", "bitDepth", "frequency", "waveformType",
     "hardwareMaxRate", "audioBuffer"}

\* Dependency list of the pipeline effect
PipelineDeps ==
    IF variant = "hold"
    THEN {"isPlaying", "sampleRate", "bitDepth", "frequency", "waveformType",
          "hardwareMaxRate", "audioBuffer"}
    ELSE {"sampleRate", "bitDepth", "waveformType", "hardwareMaxRate", "isPlaying"}

\* Variation: the sample-and-hold version builds whether or not it is playing
PipelineGuardAlways(state) == TRUE

\* if (!isPlaying || sampleRate > hardwareMaxRate) return; the other two
\* versions have no guard
PipelineGuard(state) ==
    variant = "hold" => (state.isPlaying /\ state.sampleRate <= state.hardwareMaxRate)

\* Variation: the filters are left out when the target rate reaches the
\* hardware rate
ChainFastPath(rate, contextRate) ==
    IF variant = "hold" \/ rate >= contextRate
    THEN {<<"source", "crusher">>, <<"crusher", "gainNode">>,
          <<"gainNode", "destination">>}
    ELSE IF variant = "polyphase"
    THEN {<<"source", "antiAliasFilter">>, <<"antiAliasFilter", "crusher">>,
          <<"crusher", "reconstructionFilter">>,
          <<"reconstructionFilter", "gainNode">>, <<"gainNode", "destination">>}
    ELSE {<<"source", "antiAliasFilter">>, <<"antiAliasFilter", "crusher">>,
          <<"crusher", "reconstructionFilter1">>,
          <<"reconstructionFilter1", "reconstructionFilter2">>,
          <<"reconstructionFilter2", "gainNode">>, <<"gainNode", "destination">>}

\* The connect() calls of the pipeline effect
Chain(rate, contextRate) ==
    IF variant = "hold"
    THEN {<<"source", "crusher">>, <<"crusher", "gainNode">>,
          <<"gainNode", "destination">>}
    ELSE IF variant = "polyphase"
    THEN {<<"source", "antiAliasFilter">>, <<"antiAliasFilter", "crusher">>,
          <<"crusher", "reconstructionFilter">>,
          <<"reconstructionFilter", "gainNode">>, <<"gainNode", "destination">>}
    ELSE {<<"source", "antiAliasFilter">>, <<"antiAliasFilter", "crusher">>,
          <<"crusher", "reconstructionFilter1">>,
          <<"reconstructionFilter1", "reconstructionFilter2">>,
          <<"reconstructionFilter2", "gainNode">>, <<"gainNode", "destination">>}

\* Variation: the cleanup stops the source and closes the context but
\* disconnects nothing
DisconnectedNone == {}

\* The nodes the cleanup calls disconnect() on
Disconnected ==
    IF variant = "hold" THEN {"crusher", "gainNode"}
    ELSE IF variant = "polyphase"
    THEN {"crusher", "antiAliasFilter", "reconstructionFilter", "gainNode"}
    ELSE {"crusher", "antiAliasFilter", "reconstructionFilter1",
          "reconstructionFilter2", "gainNode"}

RECURSIVE ReachSet(_, _)
ReachSet(edges, nodes) ==
    LET next == nodes \cup {e[2] : e \in {d \in edges : d[1] \in nodes}}
    IN  IF next = nodes THEN nodes ELSE ReachSet(edges, next)

\* The nodes strictly after `node` on some path of the graph
Downstream(edges, node) == ReachSet(edges, {e[2] : e \in {d \in edges : d[1] = node}})

\* The crusher's output reaches the destination
Audible(g) == "destination" \in Downstream(g.edges, "crusher")

\* const filterOrder = Math.max(32, Math.floor(baseOrder * rateScale)), cut
\* down to MaxFirOrder taps
filterOrder(rate) == Min(MaxFirOrder, Max(32, (64 * rate) \div 4000))

\* Variation: the filter starts from the previous filter's buffer
FreshFirCarried(rate) ==
    IF fir = <<>> THEN [firBuffer |-> [j \in 0..(filterOrder(rate) - 1) |-> Zero],
                        bufferIndex |-> 0]
    ELSE fir.antiAliasFilter

\* new Float64Array(filterOrder); let bufferIndex = 0
FreshFir(rate) ==
    [firBuffer |-> [j \in 0..(filterOrder(rate) - 1) |-> Zero], bufferIndex |-> 0]

\* Variation: the phase of the previous processor is kept
InitialPhaseCarried == phaseAccumulator

\* let phaseAccumulator = 0
InitialPhase == Zero

\* gainNode.gain.value, in tenths
GainFor(playing) == IF playing THEN 3 ELSE 0

\* The refs, timers and graphs as one value, threaded through the cleanups
\* and bodies of one flush
World ==
    [graph |-> graph, audioContextRef |-> audioContextRef,
     oscillatorRef |-> oscillatorRef, gainNodeRef |-> gainNodeRef,
     playbackTimerRef |-> playbackTimerRef, timers |-> timers, armed |-> armed,
     live |-> live, built |-> built]

\* Variation: the ref is reset but the timer is left to run
ClearTimerRefOnly(w) ==
    IF w.playbackTimerRef # 0
    THEN [w EXCEPT !.playbackTimerRef = 0]
    ELSE w

\* if (playbackTimerRef.current) { clearTimeout(...); playbackTimerRef.current = null }
ClearTimer(w) ==
    IF w.playbackTimerRef # 0
    THEN [w EXCEPT !.timers = @ \ {w.playbackTimerRef}, !.playbackTimerRef = 0]
    ELSE w

\* Variation: the effect leaves the running oscillator alone
FrequencyEffectIdle(w, state) == w

\* Body of the frequency effect
FrequencyEffect(w, state) ==
    IF w.oscillatorRef # 0
    THEN [w EXCEPT !.graph[w.oscillatorRef].frequency = state.frequency]
    ELSE w

\* Body of the play/pause effect
PlayPauseEffect(w, state) ==
    LET w1 == ClearTimer(w)
        w2 == IF w1.gainNodeRef # 0
              THEN [w1 EXCEPT !.graph[w1.gainNodeRef].gain = GainFor(state.isPlaying)]
              ELSE w1
    IN  IF state.isPlaying
        THEN [w2 EXCEPT !.armed = @ + 1, !.timers = @ \cup {w2.armed + 1},
                        !.playbackTimerRef = w2.armed + 1]
        ELSE w2

\* Cleanup returned by the last run of the pipeline effect, if it returned
\* one; `used` notes whether the torn-down callback had left its initial state
PipelineCleanup(w) ==
    IF w.live = 0 THEN w
    ELSE [w EXCEPT !.graph[w.live] =
                       [@ EXCEPT !.stopped = TRUE,
                                 !.edges = {e \in @ : e[1] \notin Disconnected},
                                 !.closed = TRUE,
                                 !.used = phaseAccumulator # Zero
                                          \/ sampleBuffer # <<>>
                                          \/ lastSample # Zero],
                   !.audioContextRef = 0,
                   !.oscillatorRef = IF variant = "hold" THEN @ ELSE 0,
                   !.live = 0]

\* const requestedRate = Math.max(0.1, Math.min(hardwareMaxRate, sampleRate));
\* the lower clamp never acts on the rates of UiSampleRates
requestedRate(state) == Min(state.hardwareMaxRate, state.sampleRate)

\* ctx.sampleRate of the context the pipeline effect creates
LiveContextRates(state) ==
    IF variant = "hold" THEN {requestedRate(state), deviceRate} ELSE {deviceRate}

\* Body of the pipeline effect past its guard: the nodes, their connections
\* and the refs
PipelineEffect(w, state, contextRate) ==
    LET id == w.built + 1
        src == IF variant = "hold" /\ state.audioBuffer # 0
               THEN "bufferSource" ELSE "oscillator"
        node == [edges |-> Chain(state.sampleRate, contextRate),
                 source |-> src,
                 buffer |-> IF src = "bufferSource" THEN state.audioBuffer ELSE 0,
                 frequency |-> IF src = "oscillator" THEN state.frequency ELSE 0,
                 type |-> IF src = "oscillator" THEN state.waveformType ELSE "",
                 stopped |-> FALSE,
                 closed |-> FALSE,
                 gain |-> IF variant = "hold" THEN 3 ELSE GainFor(state.isPlaying),
                 sampleRate |-> state.sampleRate,
                 bitDepth |-> state.bitDepth,
                 contextRate |-> contextRate,
                 playing |-> state.isPlaying,
                 audibleAtBuild |-> {k \in DOMAIN w.graph : Audible(w.graph[k])},
                 used |-> FALSE]
    IN  [w EXCEPT !.graph = Append(@, node), !.built = id, !.live = id,
                  !.audioContextRef = id,
                  !.oscillatorRef = IF src = "oscillator" THEN id ELSE @,
                  !.gainNodeRef = id]

\* The two Kaiser FIR filters of the polyphase version
FreshFilters(rate) ==
    IF variant = "polyphase"
    THEN [antiAliasFilter |-> FreshFir(rate),
          reconstructionFilter |-> FreshFir(rate),
          count |-> [antiAliasFilter |-> 0, reconstructionFilter |-> 0]]
    ELSE <<>>

Changed(deps) == rendered = <<>> \/ \E d \in deps : rendered[d] # ui[d]

\* One flush of passive effects after a render: mount, or an update
FlushEffects ==
    /\ Idle
    /\ rendered # ui
    /\ LET mount == rendered = <<>>
           run3 == variant # "hold" /\ Changed({"frequency"})
           run4 == variant # "hold" /\ Changed({"isPlaying"})
           run5 == Changed(PipelineDeps)
           w1 == IF run4 /\ ~mount THEN ClearTimer(World) ELSE World
           w2 == IF run5 /\ ~mount THEN PipelineCleanup(w1) ELSE w1
           w3 == IF run3 THEN FrequencyEffect(w2, ui) ELSE w2
           w4 == IF run4 THEN PlayPauseEffect(w3, ui) ELSE w3
           builds == run5 /\ PipelineGuard(ui)
       IN  \E contextRate \in LiveContextRates(ui) :
             LET w5 == IF builds THEN PipelineEffect(w4, ui, contextRate) ELSE w4
             IN  /\ graph' = w5.graph
                 /\ audioContextRef' = w5.audioContextRef
                 /\ oscillatorRef' = w5.oscillatorRef
                 /\ gainNodeRef' = w5.gainNodeRef
                 /\ playbackTimerRef' = w5.playbackTimerRef
                 /\ timers' = w5.timers
                 /\ armed' = w5.armed
                 /\ live' = w5.live
                 /\ built' = w5.built
                 /\ IF builds
                    THEN /\ actualContextRate' = contextRate
                         /\ sampleRate' = ui.sampleRate
                         /\ bitDepth' = ui.bitDepth
                         /\ phaseAccumulator' = InitialPhase
                         /\ sampleBuffer' = <<>>
                         /\ lastSample' = Zero
                         /\ input' = <<>>
                         /\ output' = <<>>
                         /\ writeLog' = <<>>
                         /\ i' = 0
                         /\ ticks' = 0
                         /\ captureTicks' = {}
                         /\ fir' = FreshFilters(ui.sampleRate)
                         /\ firOut' = <<>>
                    ELSE UNCHANGED <<actualContextRate, sampleRate, bitDepth,
                                     phaseAccumulator, sampleBuffer, lastSample,
                                     input, output, writeLog, i, ticks,
                                     captureTicks, fir, firOut>>
                 /\ rendered' = ui
                 /\ ui' = IF mount THEN [ui EXCEPT !.hardwareMaxRate = deviceRate] ELSE ui
    /\ UNCHANGED <<variant, quantVars, waveVars, streamVars, tapVars, events, heard, upload, tempCtx,
                   deviceRate, eventBudget>>

\* Every event handler and timer callback runs between renders whose effects
\* have been flushed, and between block callbacks
Settled == Idle /\ rendered = ui

UserEvent == Settled /\ events < eventBudget

Handled == /\ events' = events + 1
           /\ UNCHANGED <<crusherVars, bitDepth, writeLog, quantVars, waveVars, streamVars, tapVars,
                          firVars, rendered, live, built, graph, audioContextRef,
                          oscillatorRef, gainNodeRef, playbackTimerRef, timers,
                          armed, heard, deviceRate, eventBudget>>

\* onSampleRateChange={setSampleRate}
SetSampleRate(value) ==
    /\ UserEvent
    /\ value # ui.sampleRate
    /\ ui' = [ui EXCEPT !.sampleRate = value]
    /\ Handled
    /\ UNCHANGED <<upload, tempCtx>>

\* onBitDepthChange={setBitDepth}
SetBitDepth(value) ==
    /\ UserEvent
    /\ value # ui.bitDepth
    /\ ui' = [ui EXCEPT !.bitDepth = value]
    /\ Handled
    /\ UNCHANGED <<upload, tempCtx>>

\* onWaveformTypeChange={setWaveformType}
SetWaveformType(value) ==
    /\ UserEvent
    /\ value # ui.waveformType
    /\ ui' = [ui EXCEPT !.waveformType = value]
    /\ Handled
    /\ UNCHANGED <<upload, tempCtx>>

\* onFrequencyChange={setFrequency}; the upload-capable version has no setter
SetFrequency(value) ==
    /\ UserEvent
    /\ variant # "hold"
    /\ value # ui.frequency
    /\ ui' = [ui EXCEPT !.frequency = value]
    /\ Handled
    /\ UNCHANGED <<upload, tempCtx>>

\* onZoomLevelChange={setZoomLevel}
SetZoomLevel(value) ==
    /\ UserEvent
    /\ variant # "hold"
    /\ value # ui.zoomLevel
    /\ ui' = [ui EXCEPT !.zoomLevel = value]
    /\ Handled
    /\ UNCHANGED <<upload, tempCtx>>

\* onPlayPauseToggle and the space key
TogglePlay ==
    /\ UserEvent
    /\ ui' = [ui EXCEPT !.isPlaying = ~@]
    /\ Handled
    /\ UNCHANGED <<upload, tempCtx>>

\* The playback timer's callback: setIsPlaying(false)
TimerFires ==
    /\ Settled
    /\ \E t \in timers : timers' = timers \ {t}
    /\ ui' = [ui EXCEPT !.isPlaying = FALSE]
    /\ UNCHANGED <<crusherVars, bitDepth, writeLog, quantVars, waveVars, streamVars, tapVars, firVars,
                   rendered, events, live, built, graph, audioContextRef,
                   oscillatorRef, gainNodeRef, playbackTimerRef, armed, heard,
                   upload, tempCtx, deviceRate, eventBudget>>

\* handleFileUpload up to its first await: a file was chosen and the
\* temporary context is open
FileUploadBegin ==
    /\ Settled
    /\ variant = "hold"
    /\ upload # "decoding"
    /\ tempCtx[1] < MaxUploads
    /\ upload' = "decoding"
    /\ tempCtx' = <<tempCtx[1] + 1, tempCtx[2]>>
    /\ UNCHANGED <<crusherVars, bitDepth, writeLog, quantVars, waveVars, streamVars, tapVars, firVars,
                   ui, rendered, events, live, built, graph, audioContextRef,
                   oscillatorRef, gainNodeRef, playbackTimerRef, timers, armed,
                   heard, deviceRate, eventBudget>>

\* handleFileUpload after decodeAudioData resolved: try block, then finally
FileUploadDecoded(decodedBuffer) ==
    /\ Settled
    /\ upload = "decoding"
    /\ ui' = [ui EXCEPT !.audioBuffer = decodedBuffer, !.isPlaying = FALSE]
    /\ upload' = "loaded"
    /\ tempCtx' = <<tempCtx[1], tempCtx[2] + 1>>
    /\ UNCHANGED <<crusherVars, bitDepth, writeLog, quantVars, waveVars, streamVars, tapVars, firVars,
                   rendered, events, live, built, graph, audioContextRef,
                   oscillatorRef, gainNodeRef, playbackTimerRef, timers, armed,
                   heard, deviceRate, eventBudget>>

\* Variation: the failure path stops playback as the success path does
FileUploadFailedStops ==
    /\ Settled
    /\ upload = "decoding"
    /\ upload' = "failed"
    /\ ui' = [ui EXCEPT !.isPlaying = FALSE]
    /\ tempCtx' = <<tempCtx[1], tempCtx[2] + 1>>
    /\ UNCHANGED <<crusherVars, bitDepth, writeLog, quantVars, waveVars, streamVars, tapVars, firVars,
                   rendered, events, live, built, graph, audioContextRef,
                   oscillatorRef, gainNodeRef, playbackTimerRef, timers, armed,
                   heard, deviceRate, eventBudget>>

\* handleFileUpload after arrayBuffer() or decodeAudioData rejected: catch
\* block, then finally
FileUploadFailed ==
    /\ Settled
    /\ upload = "decoding"
    /\ upload' = "failed"
    /\ tempCtx' = <<tempCtx[1], tempCtx[2] + 1>>
    /\ UNCHANGED <<crusherVars, bitDepth, writeLog, quantVars, waveVars, streamVars, tapVars, firVars,
                   ui, rendered, events, live, built, graph, audioContextRef,
                   oscillatorRef, gainNodeRef, playbackTimerRef, timers, armed,
                   heard, deviceRate, eventBudget>>

\* onClearAudio={() => setAudioBuffer(null)}
ClearAudio ==
    /\ UserEvent
    /\ variant = "hold"
    /\ ui.audioBuffer # 0
    /\ ui' = [ui EXCEPT !.audioBuffer = 0]
    /\ Handled
    /\ UNCHANGED <<upload, tempCtx>>

\* crusher.onaudioprocess of the live instance is entered; in the polyphase
\* version the block has passed the anti-alias filter
LiveBeginBlock ==
    /\ live # 0
    /\ \E blk \in LiveBlocks :
          /\ ticks + Len(blk) <= LiveTicks
          /\ fir # <<>> => fir.count.antiAliasFilter = ticks + Len(blk)
          /\ BeginBlock(blk)
          /\ UNCHANGED streamVars

\* One iteration of the live instance's crusher loop
LiveProcessSample ==
    /\ live # 0
    /\ ProcessSample
    /\ UNCHANGED streamVars

RECURSIVE FirLoop(_, _, _, _)
RECURSIVE FirLoopReadsFromWrite(_, _, _, _)
\* Variation: the convolution starts at the slot just written
FirLoopReadsFromWrite(f, blk, k, order) ==
    IF k >= Len(blk) THEN f
    ELSE LET buf == [f.firBuffer EXCEPT ![f.bufferIndex] = blk[k + 1]]
             idx == (f.bufferIndex + 1) % order
             window == [j \in 1..order |-> buf[(f.bufferIndex + j - 1) % order]]
         IN  FirLoopReadsFromWrite([firBuffer |-> buf, bufferIndex |-> idx,
                                    writes |-> Append(f.writes,
                                                      [slot |-> WriteIndex(k),
                                                       window |-> window])],
                                   blk, k + 1, order)

\* The loop of firFilter.onaudioprocess from iteration k on; each write is
\* kept with the buffer in the order the convolution reads it
FirLoop(f, blk, k, order) ==
    IF k >= Len(blk) THEN f
    ELSE LET buf == [f.firBuffer EXCEPT ![f.bufferIndex] = blk[k + 1]]
             idx == (f.bufferIndex + 1) % order
             window == [j \in 1..order |-> buf[(idx + j - 1) % order]]
         IN  FirLoop([firBuffer |-> buf, bufferIndex |-> idx,
                      writes |-> Append(f.writes,
                                        [slot |-> WriteIndex(k), window |-> window])],
                     blk, k + 1, order)

\* One call of firFilter.onaudioprocess of the live instance's filter `name`
FirProcess(name, blk) ==
    /\ live # 0
    /\ fir # <<>>
    /\ Idle
    /\ LET done == FirLoop([firBuffer |-> fir[name].firBuffer,
                            bufferIndex |-> fir[name].bufferIndex,
                            writes |-> <<>>],
                           blk, 0, filterOrder(sampleRate))
       IN  /\ fir' = [fir EXCEPT ![name] = [firBuffer |-> done.firBuffer,
                                            bufferIndex |-> done.bufferIndex],
                                 !.count[name] = @ + Len(blk)]
           /\ firOut' = [filter |-> name, input |-> blk, writes |-> done.writes]
    /\ UNCHANGED <<crusherVars, bitDepth, writeLog, quantVars, waveVars, streamVars, tapVars,
                   componentVars>>

\* A block reaches the anti-alias filter
AntiAliasProcess ==
    \E blk \in FirBlocks :
        /\ fir # <<>>
        /\ fir.count.antiAliasFilter = ticks
        /\ fir.count.reconstructionFilter = ticks
        /\ ticks + Len(blk) <= LiveTicks
        /\ FirProcess("antiAliasFilter", blk)

\* The crusher's block reaches the reconstruction filter
ReconstructionProcess ==
    \E blk \in FirBlocks :
        /\ fir # <<>>
        /\ fir.count.antiAliasFilter = ticks
        /\ fir.count.reconstructionFilter + Len(blk) = ticks
        /\ FirProcess("reconstructionFilter", blk)

\* A block callback of an instance whose cleanup has run
StaleCallback(id) ==
    /\ Idle
    /\ id # live
    /\ heard.calls < MaxStaleCalls
    /\ heard' = [calls |-> heard.calls + 1,
                 instances |-> IF Audible(graph[id])
                               THEN heard.instances \cup {id} ELSE heard.instances]
    /\ UNCHANGED <<crusherVars, bitDepth, writeLog, quantVars, waveVars, streamVars, tapVars, firVars,
                   ui, rendered, events, live, built, graph, audioContextRef,
                   oscillatorRef, gainNodeRef, playbackTimerRef, timers, armed,
                   upload, tempCtx, deviceRate, eventBudget>>

\* The component as its first render leaves it, before any effect has run
BeforeMount ==
    /\ variant \in Variants
    /\ deviceRate \in DeviceRates
    /\ ui = InitialState
    /\ rendered = <<>>
    /\ events = 0
    /\ live = 0
    /\ built = 0
    /\ graph = <<>>
    /\ audioContextRef = 0
    /\ oscillatorRef = 0
    /\ gainNodeRef = 0
    /\ playbackTimerRef = 0
    /\ timers = {}
    /\ armed = 0
    /\ fir = <<>>
    /\ firOut = <<>>
    /\ heard = [calls |-> 0, instances |-> {}]
    /\ upload = "none"
    /\ tempCtx = <<0, 0>>
    /\ actualContextRate = hardwareMaxRate
    /\ sampleRate = InitialState.sampleRate
    /\ bitDepth = InitialState.bitDepth
    /\ phaseAccumulator = Zero
    /\ sampleBuffer = <<>>
    /\ lastSample = Zero
    /\ input = <<>>
    /\ output = <<>>
    /\ writeLog = <<>>
    /\ i = 0
    /\ ticks = 0
    /\ captureTicks = {}
    /\ qStage = "idle"
    /\ qValue = Zero
    /\ qIndex = 0
    /\ qOut = Zero
    /\ qPrev = Zero
    /\ WaveIdle
    /\ StreamIdle
    /\ TapsIdle

InitComponent ==
    /\ BeforeMount
    /\ eventBudget = MaxEvents

NextComponent ==
    \/ FlushEffects
    \/ \E value \in UiSampleRates : SetSampleRate(value)
    \/ \E value \in UiBitDepths : SetBitDepth(value)
    \/ \E value \in UiWaveformTypes : SetWaveformType(value)
    \/ \E value \in UiFrequencies : SetFrequency(value)
    \/ \E value \in UiZoomLevels : SetZoomLevel(value)
    \/ TogglePlay
    \/ TimerFires
    \/ FileUploadBegin
    \/ \E decodedBuffer \in AudioFiles : FileUploadDecoded(decodedBuffer)
    \/ FileUploadFailed
    \/ ClearAudio
    \/ LiveBeginBlock
    \/ LiveProcessSample
    \/ AntiAliasProcess
    \/ ReconstructionProcess
    \/ \E id \in 1..built : StaleCallback(id)

SpecComponent == InitComponent /\ [][NextComponent]_vars

----------------------------------------------------------------------------
(* C11..C20 *)

FilterNodes == {"antiAliasFilter", "reconstructionFilter",
                "reconstructionFilter1", "reconstructionFilter2"}

\* The filter nodes the signal passes on its way to the crusher, and from the
\* crusher to the destination
FiltersBefore(g) == {n \in FilterNodes : "crusher" \in Downstream(g.edges, n)
                                         /\ n \in Downstream(g.edges, "source")}
FiltersAfter(g) == {n \in FilterNodes : n \in Downstream(g.edges, "crusher")
                                        /\ "destination" \in Downstream(g.edges, n)}

QuantizeOnly ==
    /\ phaseAccumulator = Zero
    /\ sampleBuffer = <<>>
    /\ lastSample = Zero
    /\ \A j \in 1..Len(output) :
          output[j] = Plain(LevelValue(quantizeToIndex(input[j], Levels)))

InOrder(n) == [k \in 1..n |-> k - 1]

\* C12: in every block callback, of the crusher (decimating, bypass, before
\* the first capture) and of the FIR filters, for every block length N, the
\* output slots 0..N-1 are written exactly once each, in increasing order,
\* and the output is as long as the input.
C12_WrittenOnceInOrder ==
    /\ i <= Len(input)
    /\ Len(output) = i
    /\ writeLog = InOrder(i)
    /\ Idle => Len(output) = Len(input)
    /\ firOut # <<>> =>
          /\ Len(firOut.writes) = Len(firOut.input)
          /\ [k \in 1..Len(firOut.writes) |-> firOut.writes[k].slot] =
                InOrder(Len(firOut.input))

C12_Witness ==
    /\ variant = "polyphase"
    /\ live # 0
    /\ DecimatingMode
    /\ captureTicks = {}
    /\ Idle
    /\ Len(output) = MaxBlock
    /\ firOut # <<>>
    /\ firOut.filter = "reconstructionFilter"
    /\ Len(firOut.writes) = MaxBlock

\* The processor as the pipeline effect's closure creates it
Fresh ==
    /\ phaseAccumulator = Zero
    /\ sampleBuffer = <<>>
    /\ lastSample = Zero
    /\ ticks = 0
    /\ variant = "polyphase" =>
          \A name \in {"antiAliasFilter", "reconstructionFilter"} :
              /\ fir[name].bufferIndex = 0
              /\ \A j \in DOMAIN fir[name].firBuffer : fir[name].firBuffer[j] = Zero

ReconfigurationDeps == {"sampleRate", "bitDepth", "waveformType", "hardwareMaxRate",
                        "isPlaying"}

\* C13: no state is carried across a reconfiguration: after any change of
\* sampleRate, bitDepth, waveformType, the hardware rate or isPlaying the
\* processor that was live is live no more, and a processor that becomes
\* live starts with phaseAccumulator = 0, an empty sample history, and FIR
\* buffers all zero with bufferIndex = 0.
C13_FreshAfterReconfiguration ==
    [][/\ (live' # 0 /\ live' # live) => Fresh'
       /\ (rendered # <<>> /\ rendered' # rendered
             /\ \E d \in ReconfigurationDeps : rendered'[d] # rendered[d]) =>
            (live' = 0 \/ live' # live)]_vars

C13_Witness ==
    /\ variant = "polyphase"
    /\ built >= 2
    /\ live = built
    /\ graph[built - 1].used
    /\ graph[built - 1].sampleRate # sampleRate
    /\ Fresh

\* The effects of the first render have run
Mounted == rendered # <<>>

Connected == {id \in 1..built : Audible(graph[id])}

\* C15: teardown and reconstruction are atomic with respect to block
\* callbacks: at most one processor instance is connected to the output at a
\* time, the teardown of the old instance (source stopped, crusher and
\* filters disconnected) is complete before its replacement is constructed,
\* and no callback of a torn-down instance contributes samples to the output.
C15_AtomicRebuild ==
    /\ [](/\ Cardinality(Connected) <= 1
          /\ Connected \subseteq {live}
          /\ heard.instances = {}
          /\ \A id \in 1..built :
                /\ graph[id].audibleAtBuild = {}
                /\ id # live =>
                      /\ graph[id].stopped
                      /\ \A e \in graph[id].edges :
                            e[1] \notin {"crusher"} \cup FilterNodes)
    /\ [][live' # live => (i = Len(input) /\ i' = Len(input'))]_vars

C15_Witness ==
    /\ built >= 2
    /\ live = built
    /\ graph[built - 1].used
    /\ heard.calls > 0
    /\ ticks > 0
    /\ Connected = {live}

ClosureUnchanged == UNCHANGED <<phaseAccumulator, sampleBuffer, lastSample>>

DisplayOnly == {"frequency", "zoomLevel"}

\* C16: the phase accumulator and the sample history of an instance are
\* written only by that instance's own block callback: a frequency change
\* (which only updates the live oscillator's frequency, without a rebuild), a
\* zoom change and a callback of another instance leave them unchanged.
C16_OwnCallbackOnly ==
    [][/\ (live' = live /\ ~ClosureUnchanged) =>
            (live # 0 /\ i' = i + 1 /\ ticks' = ticks + 1)
       /\ ui' # ui => ClosureUnchanged
       /\ heard' # heard => ClosureUnchanged
       /\ (/\ Mounted
           /\ rendered' # rendered
           /\ \A d \in DOMAIN rendered \ DisplayOnly : rendered'[d] = rendered[d]) =>
            /\ ClosureUnchanged
            /\ live' = live
            /\ built' = built
            /\ (live # 0 /\ rendered'.frequency # rendered.frequency) =>
                  /\ graph'[live].frequency = rendered'.frequency
                  /\ graph' = [graph EXCEPT ![live].frequency = rendered'.frequency]]_vars

C16_Witness ==
    /\ variant = "polyphase"
    /\ Settled
    /\ live # 0
    /\ ui.frequency # InitialState.frequency
    /\ graph[live].frequency = ui.frequency
    /\ phaseAccumulator # Zero
    /\ heard.calls > 0

OneMoreClosed == tempCtx' = <<tempCtx[1], tempCtx[2] + 1>>

DecodeFailureStep == upload = "decoding" /\ upload' = "failed"

FailureLeavesState ==
    /\ ui' = ui
    /\ rendered' = ui'
    /\ live' = live
    /\ built' = built
    /\ graph' = graph
    /\ OneMoreClosed

BufferReplaced == ui'.audioBuffer # ui.audioBuffer /\ ui'.audioBuffer # 0

SuccessfulDecode ==
    /\ upload = "decoding"
    /\ upload' = "loaded"
    /\ ~ui'.isPlaying
    /\ OneMoreClosed

\* C17: a failed decode of an uploaded file leaves audioBuffer and isPlaying
\* unchanged, tears down and constructs no pipeline, and still closes the
\* temporary decoding context; only a successful decode replaces audioBuffer
\* (and sets isPlaying to false).
C17_FailedDecode ==
    /\ [][DecodeFailureStep => FailureLeavesState]_vars
    /\ [][BufferReplaced => SuccessfulDecode]_vars
    /\ [](upload # "decoding" => tempCtx[1] = tempCtx[2])

C17_Witness ==
    /\ upload = "failed"
    /\ ui.isPlaying
    /\ ui.audioBuffer = 0
    /\ live # 0
    /\ ticks > 0
    /\ tempCtx = <<1, 1>>

\* The settings instance id was constructed with
ConstructedWith(id) ==
    [sampleRate |-> graph[id].sampleRate,
     bitDepth |-> graph[id].bitDepth,
     frequency |-> IF graph[id].source = "oscillator"
                   THEN graph[id].frequency ELSE InitialState.frequency]

HoldMode == variant = "hold" /\ DecimatingMode

\* The hardware tick on which slot j of the block in progress was written
TickOf(j) == ticks - i + j

\* C19: in the sample-and-hold processor every decimating output is the
\* most recently captured quantized sample, the one captured on the same
\* tick included; before the first capture the output is 0; the output is
\* never interpolated and never depends on the fractional phase.
C19_HeldSample ==
    /\ [](HoldMode =>
            /\ captureTicks = {} => lastSample = Zero
            /\ \A j \in 1..Len(output) :
                  /\ output[j] = Plain(output[j].value)
                  /\ TickOf(j) \in captureTicks =>
                        output[j].value = LevelValue(quantizeToIndex(input[j], Levels))
                  /\ (TickOf(j) \notin captureTicks /\ j > 1) =>
                        output[j].value = output[j - 1].value
                  /\ (\A t \in captureTicks : t > TickOf(j)) =>
                        output[j].value = Zero)
    /\ [][(HoldMode /\ ticks' = ticks + 1) =>
            /\ output'[i'].value = lastSample'
            /\ ticks' \in captureTicks' =>
                  lastSample' = LevelValue(quantizeToIndex(input[i'], Levels))
            /\ ticks' \notin captureTicks' => lastSample' = lastSample]_vars

C19_Witness ==
    /\ HoldMode
    /\ phaseAccumulator # Zero
    /\ Len(output) = 2
    /\ ticks > 2
    /\ ticks \in captureTicks
    /\ ticks - 1 \notin captureTicks
    /\ output[2].value # output[1].value
    /\ output[1].value # Zero

\* The fractional part x - floor(x)
Frac(x) == RSub(x, FromInt(Floor(x)))

\* C20: the sawtooth generator returns 2*frac(f*t) - 1 with
\* frac(x) = x - floor(x), hence a value in [-1,1), for every t and f,
\* negative t included.
C20_Sawtooth ==
    gStage = "generated" =>
        /\ gOut = RSub(RMul(Two, Frac(RMul(gFrequency, gTime))), One)
        /\ RLeq(<<-1, 1>>, gOut)
        /\ RLt(gOut, One)


----------------------------------------------------------------------------
(* Stream study: one processor fed a sample stream block by block *)

MaxStream == 6

\* Target rates of the study: ratios 12/5 and 3/2, and the hardware rate
StreamRates == {20000, 32000, 48000}

\* The closure state of a processor as the pipeline effect leaves it
Constructed ==
    [phaseAccumulator |-> Zero, sampleBuffer |-> <<>>, lastSample |-> Zero,
     output |-> <<>>]

RECURSIVE onaudioprocess(_, _, _)
\* crusher.onaudioprocess run on one block, from iteration k on: the closure
\* state it leaves and the output block it writes
onaudioprocess(st, blk, k) ==
    IF k >= Len(blk) THEN st
    ELSE LET levels == quantizationLevels(bitDepth)
             advanced == Advance(st.phaseAccumulator)
             due == CaptureDue(advanced)
             q == quantize(blk[k + 1], levels)
             phase == IF due THEN Wrap(advanced) ELSE advanced
             buf == IF due /\ variant # "hold"
                    THEN PushSample(st.sampleBuffer, q) ELSE st.sampleBuffer
             last == IF due /\ variant = "hold" THEN q ELSE st.lastSample
         IN  IF Decimating
             THEN onaudioprocess([phaseAccumulator |-> phase, sampleBuffer |-> buf,
                                  lastSample |-> last,
                                  output |-> Append(st.output,
                                                    Reconstruct(phase, buf, last))],
                                 blk, k + 1)
             ELSE onaudioprocess([st EXCEPT !.output = Append(@, Plain(q))],
                                 blk, k + 1)

\* Input samples of the study: the two extremes of the input range
StreamInputs == {<<-1, 1>>, <<1, 1>>}

StreamBlocks == UNION {[1..n -> StreamInputs] : n \in 1..MaxBlock}

\* The host hands the next block of the stream to the callback
StreamBeginBlock ==
    \E blk \in StreamBlocks :
        /\ Len(stream) + Len(blk) <= MaxStream
        /\ BeginBlock(blk)
        /\ UNCHANGED streamVars

\* One iteration of the loop; the sample read and the sample written join
\* the two streams
StreamProcessSample ==
    /\ ProcessSample
    /\ stream' = Append(stream, input[i + 1])
    /\ produced' = Append(produced, output'[Len(output')])

InitStream ==
    /\ Init
    /\ sampleRate \in StreamRates

NextStream ==
    \/ StreamBeginBlock
    \/ StreamProcessSample

SpecStream == InitStream /\ [][NextStream]_vars

----------------------------------------------------------------------------
(* FIR study: one Kaiser FIR filter fed a sample stream block by block *)

\* One call of firFilter.onaudioprocess of the anti-alias filter; the block
\* and the writes join the two streams
FirStreamProcess ==
    \E blk \in Blocks :
        /\ Len(stream) + Len(blk) <= MaxStream
        /\ LET done == FirLoop([firBuffer |-> fir.antiAliasFilter.firBuffer,
                                bufferIndex |-> fir.antiAliasFilter.bufferIndex,
                                writes |-> <<>>],
                               blk, 0, filterOrder(sampleRate))
           IN  /\ fir' = [fir EXCEPT !.antiAliasFilter =
                                         [firBuffer |-> done.firBuffer,
                                          bufferIndex |-> done.bufferIndex],
                                     !.count.antiAliasFilter = @ + Len(blk)]
               /\ firOut' = [filter |-> "antiAliasFilter", input |-> blk,
                             writes |-> done.writes]
               /\ stream' = stream \o blk
               /\ produced' = produced \o done.writes
        /\ UNCHANGED <<crusherVars, bitDepth, writeLog, quantVars, waveVars,
                       componentVars, tapVars>>

\* createAdaptiveFIR has run for a polyphase pipeline; nothing else is live
InitFir ==
    /\ variant = "polyphase"
    /\ sampleRate \in {8000, 48000}
    /\ actualContextRate = hardwareMaxRate
    /\ bitDepth = 1
    /\ phaseAccumulator = Zero
    /\ sampleBuffer = <<>>
    /\ lastSample = Zero
    /\ input = <<>>
    /\ output = <<>>
    /\ i = 0
    /\ ticks = 0
    /\ captureTicks = {}
    /\ qStage = "idle"
    /\ qValue = Zero
    /\ qIndex = 0
    /\ qOut = Zero
    /\ qPrev = Zero
    /\ writeLog = <<>>
    /\ ui = <<>>
    /\ rendered = <<>>
    /\ events = 0
    /\ live = 0
    /\ built = 0
    /\ graph = <<>>
    /\ audioContextRef = 0
    /\ oscillatorRef = 0
    /\ gainNodeRef = 0
    /\ playbackTimerRef = 0
    /\ timers = {}
    /\ armed = 0
    /\ fir = FreshFilters(sampleRate)
    /\ firOut = <<>>
    /\ heard = [calls |-> 0, instances |-> {}]
    /\ upload = "none"
    /\ tempCtx = <<0, 0>>
    /\ deviceRate = hardwareMaxRate
    /\ eventBudget = 0
    /\ WaveIdle
    /\ StreamIdle
    /\ TapsIdle

NextFir == FirStreamProcess

SpecFir == InitFir /\ [][NextFir]_vars

----------------------------------------------------------------------------
(* Tap study: one branch of the polyphase coefficient table *)

\* Values of sinc(normalizedX) * blackmanHarris(n, totalTaps): at most 1 at
\* the main lobe, negative at the odd side lobes
TapValues == {<<-1, 4>>, Zero, <<1, 4>>, <<1, 2>>, One}

\* Values of a constant history
HistoryValues == {<<-1, 1>>, <<1, 3>>, One}

RECURSIVE Reduce(_, _, _)
\* phaseCoeffs.reduce((acc, val) => acc + val, acc0), from element k on
Reduce(coeffs, k, acc) ==
    IF k > Len(coeffs) THEN acc
    ELSE Reduce(coeffs, k + 1, RAdd(acc, coeffs[k]))

\* Variation: the branch is scaled to a peak of 1
NormalizeToPeak(coeffs) ==
    LET peak == CHOOSE c \in {coeffs[tap] : tap \in 1..Len(coeffs)} :
                    \A tap \in 1..Len(coeffs) : RLeq(coeffs[tap], c)
    IN  [tap \in 1..Len(coeffs) |-> RDiv(coeffs[tap], peak)]

\* const sum = phaseCoeffs.reduce(...); phaseCoeffs.map(c => c / sum)
Normalize(coeffs) ==
    LET sum == Reduce(coeffs, 1, Zero)
    IN  [tap \in 1..Len(coeffs) |-> RDiv(coeffs[tap], sum)]

RECURSIVE Convolve(_, _, _, _)
\* for (tap...) interpolatedSample += sampleBuffer[startIdx + tap] * coeffs[tap]
Convolve(buf, coeffs, tap, acc) ==
    IF tap >= filterLength THEN acc
    ELSE LET startIdx == Len(buf) - filterLength
         IN  Convolve(buf, coeffs, tap + 1,
                      RAdd(acc, RMul(buf[startIdx + tap + 1], coeffs[tap + 1])))

\* The end of one iteration of the precomputation's outer loop
NormalizePhase ==
    /\ phaseCoeffs # <<>>
    /\ filterCoeffs = <<>>
    /\ filterCoeffs' = Normalize(phaseCoeffs)
    /\ UNCHANGED <<crusherVars, bitDepth, writeLog, quantVars, waveVars, streamVars,
                   firVars, componentVars, phaseCoeffs, interpolatedSample>>

\* The branch is applied to a full history of one value
ConvolveConstant ==
    \E c \in HistoryValues :
        /\ filterCoeffs # <<>>
        /\ interpolatedSample = <<>>
        /\ interpolatedSample' =
              [history |-> c,
               value |-> Convolve([tap \in 1..filterLength |-> c], filterCoeffs, 0, Zero)]
        /\ UNCHANGED <<crusherVars, bitDepth, writeLog, quantVars, waveVars, streamVars,
                       firVars, componentVars, phaseCoeffs, filterCoeffs>>

\* The taps of the source's 256 branches add up to between 0.9999997 and 1
\* before normalization; the study draws every branch with a positive sum
InitTaps ==
    /\ variant = "polyphase"
    /\ sampleRate = 8000
    /\ actualContextRate = hardwareMaxRate
    /\ bitDepth = 1
    /\ phaseAccumulator = Zero
    /\ sampleBuffer = <<>>
    /\ lastSample = Zero
    /\ input = <<>>
    /\ output = <<>>
    /\ i = 0
    /\ ticks = 0
    /\ captureTicks = {}
    /\ qStage = "idle"
    /\ qValue = Zero
    /\ qIndex = 0
    /\ qOut = Zero
    /\ qPrev = Zero
    /\ writeLog = <<>>
    /\ ComponentAbsent
    /\ WaveIdle
    /\ StreamIdle
    /\ phaseCoeffs \in {t \in [1..filterLength -> TapValues] : RLt(Zero, Reduce(t, 1, Zero))}
    /\ filterCoeffs = <<>>
    /\ interpolatedSample = <<>>

NextTaps ==
    \/ NormalizePhase
    \/ ConvolveConstant

SpecTaps == InitTaps /\ [][NextTaps]_vars

----------------------------------------------------------------------------
(* Session study: the component over several user events, audio callbacks
   left out *)

MaxSessionEvents == 3

InitSession ==
    /\ BeforeMount
    /\ eventBudget = MaxSessionEvents

NextSession ==
    \/ FlushEffects
    \/ \E value \in UiSampleRates : SetSampleRate(value)
    \/ \E value \in UiBitDepths : SetBitDepth(value)
    \/ \E value \in UiWaveformTypes : SetWaveformType(value)
    \/ \E value \in UiFrequencies : SetFrequency(value)
    \/ \E value \in UiZoomLevels : SetZoomLevel(value)
    \/ TogglePlay
    \/ TimerFires
    \/ FileUploadBegin
    \/ \E decodedBuffer \in AudioFiles : FileUploadDecoded(decodedBuffer)
    \/ FileUploadFailed
    \/ ClearAudio

SpecSession == InitSession /\ [][NextSession]_vars

\* The versions with an auto-stop timer, followed over play/pause, the timer
\* and one setting that rebuilds the pipeline
InitTimed ==
    /\ InitSession
    /\ variant \in {"polyphase", "sinc"}
    /\ deviceRate = hardwareMaxRate

NextTimed ==
    \/ FlushEffects
    \/ \E value \in UiSampleRates : SetSampleRate(value)
    \/ TogglePlay
    \/ TimerFires

\* React runs the effects of every render it commits, and the host runs a
\* timer that stays armed
SpecTimed ==
    /\ InitTimed
    /\ [][NextTimed]_vars
    /\ WF_vars(FlushEffects)
    /\ WF_vars(TimerFires)

----------------------------------------------------------------------------
(* C21..C30 *)

\* C28: in decimating mode, for integer and non-integer ratios alike, the
\* number of samples captured in the first n ticks of a processor is
\* floor(n * sampleRate / actualContextRate).
C28_CaptureCount ==
    DecimatingMode =>
        Cardinality(captureTicks) = Floor(Rat(ticks * sampleRate, actualContextRate))

C28_Witness ==
    /\ DecimatingMode /\ ~IntegerRatio
    /\ sampleRate = 20000
    /\ ticks >= 10
    /\ Cardinality(captureTicks) = 4


\* The kernel support of the active reconstruction strategy
KernelSupport == IF variant = "polyphase" THEN filterLength ELSE 2 * sincRadius + 1
Interpolating == DecimatingMode /\ variant \in {"polyphase", "sinc"}
CapturesBy(n) == {t \in captureTicks : t <= n}
CaptureTick(k) == CHOOSE t \in captureTicks : Cardinality(CapturesBy(t)) = k
CapturedSample(k) == LevelValue(quantizeToIndex(stream[CaptureTick(k)], Levels))

\* C23: the history never holds more than K samples, and it is the
\* min(K, captures so far) most recently captured quantized samples, oldest
\* first (K = filterLength for polyphase, 2*sincRadius+1 for sinc).
C23_History ==
    Interpolating =>
        LET c == Cardinality(captureTicks)
            n == Min(KernelSupport, c)
        IN  /\ Len(sampleBuffer) <= KernelSupport
            /\ Len(sampleBuffer) = n
            /\ \A j \in 1..n : sampleBuffer[j] = CapturedSample(c - n + j)

C23_Witness ==
    /\ Interpolating
    /\ Cardinality(captureTicks) > KernelSupport
    /\ Len(sampleBuffer) = KernelSupport
    /\ sampleBuffer[1] # sampleBuffer[KernelSupport]
    /\ CapturedSample(1) # sampleBuffer[1]

C25_BranchAndWindow ==
    (DecimatingMode /\ variant = "polyphase" /\ Len(produced) > 0) =>
        LET latest == produced[Len(produced)]
            c == Cardinality(captureTicks)
            fracPos == RDiv(phaseAccumulator, Ratio)
        IN  latest.kind = "interp" =>
              /\ latest.branch \in 0..(numPhases - 1)
              /\ latest.branch = Floor(RMul(fracPos, FromInt(numPhases))) % numPhases
              /\ Len(latest.taps) = filterLength
              /\ \A tap \in 0..(filterLength - 1) :
                    latest.taps[tap + 1] = CapturedSample(c - filterLength + 1 + tap)

C25_Witness ==
    /\ DecimatingMode /\ variant = "polyphase"
    /\ Len(produced) > 0
    /\ produced[Len(produced)].kind = "interp"
    /\ \E n \in 1..Len(produced) : produced[n].kind = "interp" /\ produced[n].branch > 0
    /\ produced[Len(produced)].taps[1] # produced[Len(produced)].taps[filterLength]
    /\ Cardinality(captureTicks) > filterLength

\* C27: whatever the block sizes, the outputs written so far and the closure
\* state are those of one callback run on the whole stream consumed so far.
C27_BlockBoundariesInvisible ==
    LET whole == onaudioprocess(Constructed, stream, 0)
    IN  /\ produced = whole.output
        /\ phaseAccumulator = whole.phaseAccumulator
        /\ sampleBuffer = whole.sampleBuffer
        /\ lastSample = whole.lastSample

C27_Witness ==
    /\ Interpolating
    /\ Idle
    /\ Len(stream) >= 5
    /\ Len(input) = 1
    /\ produced[Len(produced)].kind = "interp"
    /\ phaseAccumulator # Zero


\* The input stream of the filter, 0 before its first sample
StreamAt(n) == IF n >= 1 THEN stream[n] ELSE Zero

\* C26: after every sample the FIR filter's bufferIndex is in
\* 0..filterOrder-1, and the n-th output since construction pairs
\* coefficient j with input n-(filterOrder-1-j), inputs before the first
\* being 0; the buffer and the index carry over from block to block.
C26_StreamingFir ==
    LET order == filterOrder(sampleRate)
    IN  /\ fir.antiAliasFilter.bufferIndex \in 0..(order - 1)
        /\ Len(produced) = Len(stream)
        /\ \A n \in 1..Len(produced) :
              /\ Len(produced[n].window) = order
              /\ \A j \in 0..(order - 1) :
                    produced[n].window[j + 1] = StreamAt(n - (order - 1 - j))

C26_Witness ==
    /\ Len(stream) > filterOrder(sampleRate) + 1
    /\ Len(firOut.input) = 1
    /\ stream[Len(stream)] # stream[Len(stream) - 1]
    /\ stream[1] # Zero
    /\ fir.antiAliasFilter.bufferIndex = 0


\* C21: the stored taps of a branch add up to 1, and the branch returns c for
\* a history that holds c in every slot.
C21_UnityGain ==
    filterCoeffs # <<>> =>
        /\ Reduce(filterCoeffs, 1, Zero) = One
        /\ interpolatedSample # <<>> =>
              interpolatedSample.value = interpolatedSample.history

C21_Witness ==
    /\ interpolatedSample # <<>>
    /\ interpolatedSample.history = <<1, 3>>
    /\ Reduce(phaseCoeffs, 1, Zero) # One
    /\ \E tap \in 1..filterLength : RLt(phaseCoeffs[tap], Zero)
    /\ \E tap \in 1..filterLength : phaseCoeffs[tap] = One


\* What the upload-capable version's effect tests before it builds
WithinHardware(state) == state.isPlaying /\ state.sampleRate <= state.hardwareMaxRate
EffectsRun == rendered' # rendered

\* The instance built by this step has exactly the source the state asks for
SourceOfNew ==
    LET new == graph'[built']
    IN  IF ui.audioBuffer # 0
        THEN /\ new.source = "bufferSource"
             /\ new.buffer = ui.audioBuffer
             /\ new.frequency = 0
        ELSE /\ new.source = "oscillator"
             /\ new.buffer = 0
             /\ new.frequency = ui.frequency

BuildsOne ==
    /\ built' = built + 1
    /\ live' = built'
    /\ ~graph'[built'].stopped
    /\ graph'[built'].sampleRate = ui.sampleRate
    /\ SourceOfNew

BuildsNone ==
    /\ built' = built
    /\ live' = 0

\* C22: in the upload-capable version a run of the effects builds a
\* processor exactly when isPlaying is true and sampleRate <= hardwareMaxRate,
\* never above the hardware rate, and the processor's one source is the
\* decoded buffer if one is loaded and the oscillator otherwise.
C22_BuildGuard ==
    [][(variant = "hold" /\ EffectsRun) =>
          IF WithinHardware(ui) THEN BuildsOne ELSE BuildsNone]_vars

C22_Witness ==
    /\ variant = "hold"
    /\ Settled
    /\ ui.isPlaying
    /\ ui.sampleRate > ui.hardwareMaxRate
    /\ ui.audioBuffer # 0
    /\ live = 0
    /\ built > 0
    /\ graph[built].source = "bufferSource"
    /\ graph[built].stopped


\* The versions with an auto-stop timer
Timed == variant \in {"polyphase", "sinc"}
TimerFired == timers' # timers /\ rendered' = rendered

TimerDiscipline ==
    Timed =>
        /\ Cardinality(timers) <= 1
        /\ timers \subseteq {armed}
        /\ (Settled /\ ~ui.isPlaying) => timers = {}
        /\ (Settled /\ ui.isPlaying) => (timers = {armed} /\ playbackTimerRef = armed)

\* C29: at most one auto-stop timer is pending and it is the one armed last;
\* once the effects have run one is pending exactly while isPlaying is true;
\* a timer that fires sets isPlaying to false; and isPlaying, once true,
\* becomes false again.
C29_SessionsEnd ==
    /\ []TimerDiscipline
    /\ [][TimerFired => (ui.isPlaying /\ ~ui'.isPlaying /\ timers = {armed})]_vars
    /\ (Timed /\ ui.isPlaying) ~> ~ui.isPlaying

C29_Witness ==
    /\ Timed
    /\ Settled
    /\ ui.isPlaying
    /\ events = 3
    /\ armed = 2
    /\ timers = {2}
    /\ ui.sampleRate = InitialState.sampleRate
    /\ ui.bitDepth = InitialState.bitDepth
    /\ ui.waveformType = InitialState.waveformType
    /\ ui.frequency = InitialState.frequency
    /\ ui.zoomLevel = InitialState.zoomLevel


\* C30: in the polyphase and sinc versions, once the effects of a render
\* have run, oscillatorRef refers to the oscillator of the live pipeline,
\* which has not been stopped, and that oscillator's frequency is the
\* frequency of that render; with no render pending it is the current
\* frequency setting.
C30_OscillatorCurrent ==
    (Timed /\ Mounted) =>
        /\ live # 0
        /\ oscillatorRef = live
        /\ graph[live].source = "oscillator"
        /\ ~graph[live].stopped
        /\ graph[live].frequency = rendered.frequency
        /\ Settled => graph[live].frequency = ui.frequency
        /\ \A id \in 1..built : graph[id].stopped => id # oscillatorRef

C30_Witness ==
    /\ Timed
    /\ Settled
    /\ events = 3
    /\ live > 1
    /\ graph[live - 1].stopped
    /\ graph[live - 1].frequency # InitialState.frequency
    /\ graph[live].frequency = InitialState.frequency
    /\ ui.frequency = InitialState.frequency
    /\ graph[live].sampleRate # graph[live - 1].sampleRate

====
